---- MODULE Spec2Model ----
(***************************************************************************)
(* Carnet d'adresses: the SQLite storage layer (src/model1.py), the        *)
(* controller and its e-mail validator (src/controleur.py), and the        *)
(* widgets of the view that the controller reads and writes (src/view.py). *)
(*                                                                         *)
(* A Python str is a finite sequence of one-character strings; Python's    *)
(* None and SQL's NULL are the value None below, which is no str.          *)
(***************************************************************************)
EXTENDS Integers, Sequences, FiniteSets, TLC

VARIABLES
  tableExists,  \* the contacts table has been created in the database file
  contacts,     \* the rows of table contacts
  seq,          \* sqlite_sequence.seq of contacts: the largest rowid ever used
  last,         \* the last call of a CarnetAdresses method: arguments and outcome
  issued,       \* history: the ids returned by ajouter_contact so far
  emailArg,     \* the argument given to Controller.valider_email
  emailRet,     \* <<b>> once valider_email has returned b, <<>> before
  form,         \* the text in the four Entry widgets and in the Text widget
  tree,         \* the rows of the Treeview, from top to bottom
  focus,        \* the position in tree of the focus item, 0 when there is none
  log,          \* the last event handled, and what its handler did, in order
  conns,        \* the connections to the database file opened and not closed
  label_email_error   \* the text of the label next to the email Entry

vars ==
  <<tableExists, contacts, seq, last, issued, emailArg, emailRet, form, tree, focus, log,
    conns, label_email_error>>

(***************************************************************************)
(* Bounds of the model.                                                    *)
(***************************************************************************)
\* ajouter_contact is not called once this many ids have been assigned
MaxCreates == 3
\* the longest generated argument of valider_email
MaxEmailLen == 7
\* the button Ajouter adds no contact once this many ids have been assigned
MaxAjouts == 2
\* the engine raises no error once this many connections are left open
MaxOpen == 2

(***************************************************************************)
(* Python values.                                                          *)
(***************************************************************************)
None == <<"None">>

\* str.isspace() characters that occur in the model
Whitespace == {" ", "\n"}

\* bool(x) of a str or None: `if x`, `x or y`, `not x`
truthy(x) == x # None /\ x # <<>>

RECURSIVE lstrip(_)
lstrip(s) == IF s # <<>> /\ Head(s) \in Whitespace THEN lstrip(Tail(s)) ELSE s

RECURSIVE rstrip(_)
rstrip(s) ==
  IF s # <<>> /\ s[Len(s)] \in Whitespace THEN rstrip(SubSeq(s, 1, Len(s) - 1)) ELSE s

\* a mutant of strip: only leading whitespace is removed
stripLeadingOnly(s) == lstrip(s)

\* a mutant of strip: only trailing whitespace is removed
stripTrailingOnly(s) == rstrip(s)

\* str.strip()
strip(s) == rstrip(lstrip(s))

\* `x.strip() if x else None`, the clean-up of an optional field
stripOrNone(x) == IF truthy(x) THEN strip(x) ELSE None

\* a mutant of missing: a blank value passes for a value
missingNoStrip(x) == ~truthy(x)

\* `not x or not x.strip()`, the test of a required field
missing(x) == ~truthy(x) \/ ~truthy(strip(x))

\* a mutant of critereVide: a blank criterion passes for a criterion
critereVideNoStrip(critere) == ~truthy(critere)

\* `not critere or not critere.strip()`
critereVide(critere) == ~truthy(critere) \/ ~truthy(strip(critere))

\* a Python int, told apart from None and from every str
PyInt(n) == <<"int", n>>
intval(x) == x[2]

\* `not contact_id or contact_id <= 0`
invalidId(contact_id) ==
  contact_id = None \/ intval(contact_id) = 0 \/ intval(contact_id) <= 0

(***************************************************************************)
(* The table.  A row is the tuple the SELECTs return:                      *)
(* (id, nom, prenom, telephone, email, adresse).                           *)
(***************************************************************************)
Row(id, nom, prenom, telephone, email, adresse) ==
  <<id, nom, prenom, telephone, email, adresse>>

rId(r) == r[1]
rNom(r) == r[2]
rPrenom(r) == r[3]
rTelephone(r) == r[4]
rEmail(r) == r[5]
rAdresse(r) == r[6]

rowids(table) == {rId(r) : r \in table}

Max(S) == CHOOSE m \in S : \A x \in S : x <= m

\* a mutant of nextRowid: INTEGER PRIMARY KEY without AUTOINCREMENT, where
\* the new rowid is one more than the largest rowid now in the table
nextRowidNoAutoincrement(table, s) ==
  IF table = {} THEN 1 ELSE Max(rowids(table)) + 1

\* INTEGER PRIMARY KEY AUTOINCREMENT: one more than the largest rowid that
\* was ever in the table
nextRowid(table, s) == Max(rowids(table) \cup {s}) + 1

\* the code point of a character: the BINARY collation compares the bytes
ord(c) ==
  CASE c = "\n" -> 10 [] c = " " -> 32 [] c = "%" -> 37 [] c = "." -> 46
    [] c = "1" -> 49 [] c = "@" -> 64 [] c = "A" -> 65 [] c = "B" -> 66
    [] c = "_" -> 95 [] c = "a" -> 97 [] c = "b" -> 98

\* the BINARY collation of two TEXT values: negative, zero or positive
RECURSIVE memcmp(_, _)
memcmp(x, y) ==
  IF x = <<>> THEN (IF y = <<>> THEN 0 ELSE -1)
  ELSE IF y = <<>> THEN 1
  ELSE IF Head(x) # Head(y) THEN ord(Head(x)) - ord(Head(y))
  ELSE memcmp(Tail(x), Tail(y))

\* a mutant of orderKeyLe: ORDER BY prenom, nom
orderKeyLePrenomFirst(r1, r2) ==
  \/ memcmp(rPrenom(r1), rPrenom(r2)) < 0
  \/ memcmp(rPrenom(r1), rPrenom(r2)) = 0 /\ memcmp(rNom(r1), rNom(r2)) <= 0

\* ORDER BY nom, prenom: r1 does not come after r2
orderKeyLe(r1, r2) ==
  \/ memcmp(rNom(r1), rNom(r2)) < 0
  \/ memcmp(rNom(r1), rNom(r2)) = 0 /\ memcmp(rPrenom(r1), rPrenom(r2)) <= 0

\* the sorter: r goes behind the rows of the sorted run that do not come after it
RECURSIVE insertSorted(_, _)
insertSorted(r, run) ==
  IF run = <<>> THEN <<r>>
  ELSE IF orderKeyLe(Head(run), r) THEN <<Head(run)>> \o insertSorted(r, Tail(run))
  ELSE <<r>> \o run

RECURSIVE sortRows(_)
sortRows(rows) ==
  IF rows = <<>> THEN <<>>
  ELSE insertSorted(rows[Len(rows)], sortRows(SubSeq(rows, 1, Len(rows) - 1)))

\* the orders in which a scan may deliver the rows of a result set
scans(rows) ==
  {p \in [1..Cardinality(rows) -> rows] : \A r \in rows : \E i \in DOMAIN p : p[i] = r}

\* SELECT ... ORDER BY nom, prenom: rows with equal keys come in any order
orderBy(rows) == {sortRows(p) : p \in scans(rows)}

\* LOWER() of SQLite folds the 26 letters of ASCII and no other character
lowerChar(c) == CASE c = "A" -> "a" [] c = "B" -> "b" [] OTHER -> c

LOWER(s) == [i \in DOMAIN s |-> lowerChar(s[i])]

\* text LIKE pattern: % stands for any run of characters, _ for any one
\* character, and a letter of ASCII matches in either case
RECURSIVE like(_, _)
like(p, t) ==
  IF p = <<>> THEN t = <<>>
  ELSE IF Head(p) = "%" THEN like(Tail(p), t) \/ (t # <<>> /\ like(p, Tail(t)))
  ELSE /\ t # <<>>
       /\ (Head(p) = "_" \/ lowerChar(Head(p)) = lowerChar(Head(t)))
       /\ like(Tail(p), Tail(t))

\* LOWER(col) LIKE LOWER(?) as a WHERE condition: NULL for a NULL column,
\* and a row is selected only where the condition is true
lowerLike(col, pattern) == col # None /\ like(LOWER(pattern), LOWER(col))

\* WHERE LOWER(nom) LIKE LOWER(?) OR LOWER(telephone) LIKE LOWER(?)
\*    OR LOWER(email) LIKE LOWER(?)
selectLike(table, pattern) ==
  {r \in table : \/ lowerLike(rNom(r), pattern)
                 \/ lowerLike(rTelephone(r), pattern)
                 \/ lowerLike(rEmail(r), pattern)}

\* a mutant of updateWhereId: a row is inserted when none has the id
updateOrInsert(table, id, nom, prenom, telephone, email, adresse) ==
  {r \in table : rId(r) # id} \cup {Row(id, nom, prenom, telephone, email, adresse)}

\* a mutant of updateWhereId: a NULL parameter keeps the column (a merge)
updateMerge(table, id, nom, prenom, telephone, email, adresse) ==
  {IF rId(r) = id
   THEN Row(rId(r), nom, prenom,
            IF telephone = None THEN rTelephone(r) ELSE telephone,
            IF email = None THEN rEmail(r) ELSE email,
            IF adresse = None THEN rAdresse(r) ELSE adresse)
   ELSE r : r \in table}

\* a mutant of updateWhereId: the statement has lost its WHERE clause
updateEveryRow(table, id, nom, prenom, telephone, email, adresse) ==
  {Row(rId(r), nom, prenom, telephone, email, adresse) : r \in table}

\* UPDATE contacts SET nom = ?, prenom = ?, telephone = ?, email = ?,
\* adresse = ? WHERE id = ?
updateWhereId(table, id, nom, prenom, telephone, email, adresse) ==
  {IF rId(r) = id THEN Row(rId(r), nom, prenom, telephone, email, adresse) ELSE r :
     r \in table}

\* a mutant of deleteWhereId: the statement has lost its WHERE clause
deleteEveryRow(table, id) == {}

\* a mutant of deleteWhereId: the DELETE is rolled back, not committed
deleteRolledBack(table, id) == table

\* DELETE FROM contacts WHERE id = ?
deleteWhereId(table, id) == {r \in table : rId(r) # id}

\* cursor.rowcount of an UPDATE or a DELETE ... WHERE id = ?
rowcount(table, id) == Cardinality({r \in table : rId(r) = id})

\* SELECT ... WHERE id = ? and cursor.fetchone()
selectWhereId(table, id) ==
  IF \E r \in table : rId(r) = id THEN CHOOSE r \in table : rId(r) = id ELSE None

(***************************************************************************)
(* The arguments the methods are called with.                              *)
(***************************************************************************)
Fields(nom, prenom, telephone, email, adresse) ==
  [nom |-> nom, prenom |-> prenom, telephone |-> telephone,
   email |-> email, adresse |-> adresse]

\* nom and prenom are both present after strip()
ValidFieldInputs ==
  { Fields(<<"a">>, <<"b">>, None, None, None),
    Fields(<<" ", "B">>, <<"a", " ">>, <<>>, <<>>, <<>>),
    Fields(<<"a">>, <<"a">>, <<" ">>, <<" ", "b">>, <<"b", " ">>),
    Fields(<<"a", "b", "\n">>, <<"B">>, <<" ", "1", "_">>, <<"a", "@", "b">>, None) }

\* nom or prenom is None, empty or blank
InvalidFieldInputs ==
  { Fields(None, <<"a">>, None, None, None),
    Fields(<<>>, <<"a">>, <<"1">>, None, None),
    Fields(<<" ">>, <<"a">>, None, <<"a", "@", "b">>, None),
    Fields(<<"a">>, None, None, None, <<"b">>),
    Fields(<<"a">>, <<>>, None, None, None),
    Fields(<<"a">>, <<" ", "\n">>, <<"1">>, None, None) }

FieldInputs == ValidFieldInputs \cup InvalidFieldInputs

\* the arguments of modifier_contact: every valid input, and one invalid
\* input for each required field
ModifierFieldInputs ==
  ValidFieldInputs \cup
  {f \in InvalidFieldInputs : f.nom = <<" ">> \/ f.prenom = None}

IdInputs == {None, PyInt(0), PyInt(-1)} \cup {PyInt(i) : i \in 1..MaxCreates}

CritereInputs ==
  { None, <<>>, <<" ">>, <<"a">>, <<" ", "B", " ">>, <<"A", "b">>, <<"1">>,
    <<"@">>, <<"_">>, <<"%">>, <<"a", "_">> }

(***************************************************************************)
(* CarnetAdresses.  A method is first the outcome of one call on a table:  *)
(* what the call raises or returns and the table it leaves.  It is then    *)
(* an action: one call, from its first line to its return or its raise.    *)
(***************************************************************************)
Call(op, args, exc, ret) == [op |-> op, args |-> args, exc |-> exc, ret |-> ret]

\* CREATE TABLE IF NOT EXISTS contacts (...), commit, close
initialiser_base == tableExists' = TRUE

\* the outcome of one call: the exception raised and its message ("none" and
\* "" when the call returns), the value returned, and the table and the
\* sequence the call leaves
Outcome(exc, msg, ret, table, s) ==
  [exc |-> exc, msg |-> msg, ret |-> ret, contacts |-> table, seq |-> s]

\* what obtenir_contact_par_id raises and returns on a table
obtenirResult(table, contact_id) ==
  IF invalidId(contact_id) THEN <<"ValueError", None>>
  ELSE <<"none", selectWhereId(table, intval(contact_id))>>

ajouterOutcome(table, s, nom, prenom, telephone, email, adresse) ==
  IF missing(nom) THEN Outcome("ValueError", "Le nom est obligatoire", None, table, s)
  ELSE IF missing(prenom)
  THEN Outcome("ValueError", "Le prénom est obligatoire", None, table, s)
  ELSE LET contact_id == nextRowid(table, s) IN
       Outcome("none", "", contact_id,
               table \cup {Row(contact_id, strip(nom), strip(prenom),
                               stripOrNone(telephone), stripOrNone(email),
                               stripOrNone(adresse))},
               contact_id)

\* one outcome for each order in which the rows with equal keys may come
rechercherOutcomes(table, s, critere) ==
  IF critereVide(critere)
  THEN {Outcome("ValueError", "Le critère de recherche est obligatoire", None, table, s)}
  ELSE LET pattern == <<"%">> \o strip(critere) \o <<"%">> IN
       {Outcome("none", "", resultats, table, s) :
          resultats \in orderBy(selectLike(table, pattern))}

\* a mutant of modifierOutcome: the required fields are checked before the id
modifierOutcomeNamesFirst(table, s, contact_id, nom, prenom, telephone, email, adresse) ==
  IF missing(nom) THEN Outcome("ValueError", "Le nom est obligatoire", None, table, s)
  ELSE IF missing(prenom)
  THEN Outcome("ValueError", "Le prénom est obligatoire", None, table, s)
  ELSE IF invalidId(contact_id)
  THEN Outcome("ValueError", "L'identifiant du contact est invalide", None, table, s)
  ELSE Outcome("none", "", rowcount(table, intval(contact_id)) > 0,
               updateWhereId(table, intval(contact_id), strip(nom), strip(prenom),
                             stripOrNone(telephone), stripOrNone(email),
                             stripOrNone(adresse)),
               s)

modifierOutcome(table, s, contact_id, nom, prenom, telephone, email, adresse) ==
  IF invalidId(contact_id)
  THEN Outcome("ValueError", "L'identifiant du contact est invalide", None, table, s)
  ELSE IF missing(nom) THEN Outcome("ValueError", "Le nom est obligatoire", None, table, s)
  ELSE IF missing(prenom)
  THEN Outcome("ValueError", "Le prénom est obligatoire", None, table, s)
  ELSE Outcome("none", "", rowcount(table, intval(contact_id)) > 0,
               updateWhereId(table, intval(contact_id), strip(nom), strip(prenom),
                             stripOrNone(telephone), stripOrNone(email),
                             stripOrNone(adresse)),
               s)

supprimerOutcome(table, s, contact_id) ==
  IF invalidId(contact_id)
  THEN Outcome("ValueError", "L'identifiant du contact est invalide", None, table, s)
  ELSE Outcome("none", "", rowcount(table, intval(contact_id)) > 0,
               deleteWhereId(table, intval(contact_id)), s)

\* one outcome for each order in which the rows with equal keys may come
afficherOutcomes(table, s) ==
  {Outcome("none", "", resultats, table, s) : resultats \in orderBy(table)}

obtenirOutcome(table, s, contact_id) ==
  LET res == obtenirResult(table, contact_id) IN
  Outcome(res[1],
          IF res[1] = "none" THEN "" ELSE "L'identifiant du contact est invalide",
          res[2], table, s)

\* a call with its outcome
callOf(op, args, out) == Call(op, args, out.exc, out.ret) @@ [msg |-> out.msg]

\* the call is recorded with its outcome, the table is created once the
\* arguments have passed the checks, and the call leaves its table; sqlite3
\* raising nothing, each connection the call opened is closed when it ends
called(op, args, out) ==
  /\ last' = callOf(op, args, out)
  /\ IF out.exc = "none" THEN initialiser_base ELSE UNCHANGED tableExists
  /\ contacts' = out.contacts
  /\ seq' = out.seq

ajouter_contact(nom, prenom, telephone, email, adresse) ==
  LET out == ajouterOutcome(contacts, seq, nom, prenom, telephone, email, adresse) IN
  /\ out.exc = "none" => seq < MaxCreates
  /\ called("ajouter_contact", Fields(nom, prenom, telephone, email, adresse), out)
  /\ issued' = IF out.exc = "none" THEN issued \cup {out.ret} ELSE issued

rechercher_contact(critere) ==
  /\ \E out \in rechercherOutcomes(contacts, seq, critere) :
       called("rechercher_contact", [critere |-> critere], out)
  /\ UNCHANGED issued

modifier_contact(contact_id, nom, prenom, telephone, email, adresse) ==
  /\ called("modifier_contact",
            [contact_id |-> contact_id] @@ Fields(nom, prenom, telephone, email, adresse),
            modifierOutcome(contacts, seq, contact_id, nom, prenom, telephone, email,
                            adresse))
  /\ UNCHANGED issued

supprimer_contact(contact_id) ==
  /\ called("supprimer_contact", [contact_id |-> contact_id],
            supprimerOutcome(contacts, seq, contact_id))
  /\ UNCHANGED issued

afficher_tous ==
  /\ \E out \in afficherOutcomes(contacts, seq) : called("afficher_tous", <<>>, out)
  /\ UNCHANGED issued

obtenir_contact_par_id(contact_id) ==
  /\ called("obtenir_contact_par_id", [contact_id |-> contact_id],
            obtenirOutcome(contacts, seq, contact_id))
  /\ UNCHANGED issued

(***************************************************************************)
(* The storage layer on a new database file.                               *)
(***************************************************************************)
NoCall == Call("none", <<>>, "none", None)

\* every Entry and the Text hold no text
EmptyForm == Fields(<<>>, <<>>, <<>>, <<>>, <<>>)

\* no event has been handled
NoEvent == [handler |-> "none", events |-> <<>>]

Init ==
  /\ tableExists = FALSE
  /\ contacts = {}
  /\ seq = 0
  /\ last = NoCall
  /\ issued = {}
  /\ emailArg = <<>>
  /\ emailRet = <<>>
  /\ form = EmptyForm
  /\ tree = <<>>
  /\ focus = 0
  /\ log = NoEvent
  /\ conns = 0
  /\ label_email_error = ""

Ajouter ==
  /\ \E f \in FieldInputs :
       ajouter_contact(f.nom, f.prenom, f.telephone, f.email, f.adresse)
  /\ UNCHANGED <<emailArg, emailRet, form, tree, focus, log, conns, label_email_error>>

Rechercher ==
  /\ \E critere \in CritereInputs : rechercher_contact(critere)
  /\ UNCHANGED <<emailArg, emailRet, form, tree, focus, log, conns, label_email_error>>

Modifier ==
  /\ \E contact_id \in IdInputs, f \in ModifierFieldInputs :
       modifier_contact(contact_id, f.nom, f.prenom, f.telephone, f.email, f.adresse)
  /\ UNCHANGED <<emailArg, emailRet, form, tree, focus, log, conns, label_email_error>>

Supprimer ==
  /\ \E contact_id \in IdInputs : supprimer_contact(contact_id)
  /\ UNCHANGED <<emailArg, emailRet, form, tree, focus, log, conns, label_email_error>>

AfficherTous ==
  /\ afficher_tous
  /\ UNCHANGED <<emailArg, emailRet, form, tree, focus, log, conns, label_email_error>>

ObtenirParId ==
  /\ \E contact_id \in IdInputs : obtenir_contact_par_id(contact_id)
  /\ UNCHANGED <<emailArg, emailRet, form, tree, focus, log, conns, label_email_error>>

Next ==
  \/ Ajouter
  \/ Rechercher
  \/ Modifier
  \/ Supprimer
  \/ AfficherTous
  \/ ObtenirParId

Spec == Init /\ [][Next]_vars

(***************************************************************************)
(* The storage layer on a new database file, every contact being created   *)
(* from the fields of one example.                                         *)
(***************************************************************************)
ExampleFields ==
  Fields(<<"D", "u", "p", "o", "n", "t">>, <<"J", "e", "a", "n">>,
         <<"0", "1", "0", "2", "0", "3", "0", "4", "0", "5">>,
         <<"j", "e", "a", "n", "@", "e", "x", ".", "c", "o", "m">>,
         <<"1", " ", "r", "u", "e", " ", "X">>)

AjouterExample ==
  /\ ajouter_contact(ExampleFields.nom, ExampleFields.prenom, ExampleFields.telephone,
                     ExampleFields.email, ExampleFields.adresse)
  /\ UNCHANGED <<emailArg, emailRet, form, tree, focus, log, conns, label_email_error>>

NextExample ==
  \/ AjouterExample
  \/ Supprimer
  \/ AfficherTous
  \/ ObtenirParId

SpecExample == Init /\ [][NextExample]_vars

(***************************************************************************)
(* The storage layer of the example on a database file that the engine may *)
(* fail to open, read or write: sqlite3 raises an error from connect,      *)
(* execute or commit.                                                      *)
(***************************************************************************)
\* the calls of sqlite3 that initialiser_base makes, in order
initialiserSteps == <<"connect", "execute", "commit", "close">>

\* the calls of sqlite3 that a method makes once its arguments have passed
\* the checks: initialiser_base, then its own connection and statement
engineSteps(op) ==
  initialiserSteps \o
    (IF op \in {"ajouter_contact", "modifier_contact", "supprimer_contact"}
     THEN <<"connect", "execute", "commit", "close">>
     ELSE <<"connect", "execute", "close">>)

\* the connections open when the first k of the steps have been done
RECURSIVE opened(_, _)
opened(steps, k) ==
  IF k = 0 THEN 0
  ELSE opened(steps, k - 1) +
         (CASE steps[k] = "connect" -> 1 [] steps[k] = "close" -> -1 [] OTHER -> 0)

\* sqlite3 raises from step k of a call of which the arguments pass the
\* checks: the method is left there, nothing of it is committed, and what
\* it had opened and not yet closed stays open
engineError(op, args, k) ==
  /\ k \in DOMAIN engineSteps(op)
  /\ engineSteps(op)[k] # "close"
  /\ conns + opened(engineSteps(op), k - 1) <= MaxOpen
  /\ conns' = conns + opened(engineSteps(op), k - 1)
  /\ last' = Call(op, args, "sqlite3.Error", None) @@ [msg |-> "", step |-> k]
  /\ tableExists' = (tableExists \/ k > Len(initialiserSteps))
  /\ UNCHANGED <<contacts, seq, issued>>
  /\ UNCHANGED <<emailArg, emailRet, form, tree, focus, log, label_email_error>>

EngineErrors ==
  \E k \in DOMAIN engineSteps("ajouter_contact") :
    \/ engineError("ajouter_contact", ExampleFields, k)
    \/ \E contact_id \in IdInputs :
         /\ ~invalidId(contact_id)
         /\ \/ engineError("supprimer_contact", [contact_id |-> contact_id], k)
            \/ engineError("obtenir_contact_par_id", [contact_id |-> contact_id], k)
    \/ engineError("afficher_tous", <<>>, k)

NextEngine ==
  \/ AjouterExample
  \/ Supprimer
  \/ AfficherTous
  \/ ObtenirParId
  \/ EngineErrors

SpecEngine == Init /\ [][NextEngine]_vars

(***************************************************************************)
(* Controller.valider_email.                                               *)
(***************************************************************************)
AsciiLower ==
  {"a", "b", "c", "d", "e", "f", "g", "h", "i", "j", "k", "l", "m",
   "n", "o", "p", "q", "r", "s", "t", "u", "v", "w", "x", "y", "z"}

AsciiUpper ==
  {"A", "B", "C", "D", "E", "F", "G", "H", "I", "J", "K", "L", "M",
   "N", "O", "P", "Q", "R", "S", "T", "U", "V", "W", "X", "Y", "Z"}

AsciiDigit == {"0", "1", "2", "3", "4", "5", "6", "7", "8", "9"}

\* an item of a regular expression: a character class and how many times
\* it repeats; max = -1 is no upper limit
Item(cls, min, max) == [cls |-> cls, min |-> min, max |-> max]

\* r'^[a-zA-Z0-9._%+-]+@[a-zA-Z0-9.-]+\.[a-zA-Z]{2,}$'
emailPattern ==
  << Item(AsciiLower \cup AsciiUpper \cup AsciiDigit \cup {".", "_", "%", "+", "-"}, 1, -1),
     Item({"@"}, 1, 1),
     Item(AsciiLower \cup AsciiUpper \cup AsciiDigit \cup {".", "-"}, 1, -1),
     Item({"."}, 1, 1),
     Item(AsciiLower \cup AsciiUpper, 2, -1) >>

\* `$` of Python's re without MULTILINE: at the end of the string, and also
\* just before a newline that ends the string
dollar(rest) == rest = <<>> \/ rest = <<"\n">>

\* re.match(pattern, s) of a pattern that starts with ^ and ends with $:
\* the items match s from its start, by backtracking, up to where $ holds
RECURSIVE reMatch(_, _)
reMatch(items, s) ==
  IF items = <<>> THEN dollar(s)
  ELSE LET it == Head(items) IN
       \E n \in it.min..Len(s) :
         /\ it.max = -1 \/ n <= it.max
         /\ \A k \in 1..n : s[k] \in it.cls
         /\ reMatch(Tail(items), SubSeq(s, n + 1, Len(s)))

valider_email(email) == IF email = <<>> THEN TRUE ELSE reMatch(emailPattern, email)

\* the characters the generated arguments are made of
EmailChars == {"a", "1", "@", ".", "\n"}

EmailExamples ==
  { <<"j", "e", "a", "n", ".", "d", "u", "p", "o", "n", "t", "@", "e", "x", "a", "m", "p", "l", "e", ".", "c", "o", "m">>,
    <<"n", "o", "d", "o", "m", "a", "i", "n">>,
    <<"a", "@", "b">>,
    <<"a", "@", "b", ".", "c">>,
    <<"a", " ", "b", "@", "c", ".", "d", "d">>,
    <<"a", ",", "b", "@", "c", ".", "d", "d">>,
    <<"a", ";", "b", "@", "c", ".", "d", "d">>,
    <<"a", ":", "b", "@", "c", ".", "d", "d">>,
    <<"a", "!", "b", "@", "c", ".", "d", "d">>,
    <<"a", "?", "b", "@", "c", ".", "d", "d">>,
    <<"A", "_", "%", "+", "-", "z", "@", "B", "-", "9", ".", "Z", "z">> }

EmailInputs ==
  EmailExamples \cup UNION {[1..n -> EmailChars] : n \in 0..MaxEmailLen}

InitEmail ==
  /\ tableExists = FALSE
  /\ contacts = {}
  /\ seq = 0
  /\ last = NoCall
  /\ issued = {}
  /\ emailArg \in EmailInputs
  /\ emailRet = <<>>
  /\ form = EmptyForm
  /\ tree = <<>>
  /\ focus = 0
  /\ log = NoEvent
  /\ conns = 0
  /\ label_email_error = ""

ValiderEmail ==
  /\ emailRet = <<>>
  /\ emailRet' = <<valider_email(emailArg)>>
  /\ UNCHANGED <<tableExists, contacts, seq, last, issued, emailArg>>
  /\ UNCHANGED <<form, tree, focus, log, conns, label_email_error>>

NextEmail == ValiderEmail

SpecEmail == InitEmail /\ [][NextEmail]_vars

(***************************************************************************)
(* ContactView: the widgets the controller reads and writes.               *)
(***************************************************************************)
\* str.split(sep, 1) on a string that holds sep: what precedes the first
\* sep, and what follows it
splitFirst(s, sep) ==
  LET i == CHOOSE k \in DOMAIN s : s[k] = sep /\ \A j \in 1..k - 1 : s[j] # sep
  IN  <<SubSeq(s, 1, i - 1), SubSeq(s, i + 1, Len(s))>>

\* str.split(sep)[-1]: what follows the last sep, the string if it holds none
splitLast(s, sep) ==
  LET seps == {k \in DOMAIN s : s[k] = sep}
  IN  IF seps = {} THEN s ELSE SubSeq(s, Max(seps) + 1, Len(s))

\* `c in s`
holds(s, c) == \E k \in DOMAIN s : s[k] = c

caracteres_interdits == <<" ", ",", ";", ":", "!", "?">>

\* a mutant of valider_email_temps_reel: an extension has three characters
\* or more
valider_email_temps_reelExtension3(text) ==
  LET email == strip(text)
      reste == splitFirst(email, "@")[2]
  IN  IF email = <<>> THEN ""
      ELSE IF ~holds(email, "@") THEN "@ manquant"
      ELSE IF splitFirst(email, "@")[1] = <<>> THEN "Partie avant @ vide"
      ELSE IF ~holds(reste, ".") THEN "Extension manquante"
      ELSE IF Len(splitLast(reste, ".")) < 3 THEN "Extension trop courte"
      ELSE IF \E i \in DOMAIN caracteres_interdits : holds(email, caracteres_interdits[i])
           THEN "Caractère non autorisé"
      ELSE "Format valide"

\* _valider_email_temps_reel: the text the label gets for the text of the
\* email Entry (the message of a forbidden character names the first one of
\* the list that the text holds; the model leaves that name out, and the
\* pictograph each message begins with)
valider_email_temps_reel(text) ==
  LET email == strip(text)
      reste == splitFirst(email, "@")[2]
  IN  IF email = <<>> THEN ""
      ELSE IF ~holds(email, "@") THEN "@ manquant"
      ELSE IF splitFirst(email, "@")[1] = <<>> THEN "Partie avant @ vide"
      ELSE IF ~holds(reste, ".") THEN "Extension manquante"
      ELSE IF Len(splitLast(reste, ".")) < 2 THEN "Extension trop courte"
      ELSE IF \E i \in DOMAIN caracteres_interdits : holds(email, caracteres_interdits[i])
           THEN "Caractère non autorisé"
      ELSE "Format valide"

\* the user types a text in the email Entry and releases the key
KeyRelease ==
  /\ form.email # emailArg
  /\ form' = [form EXCEPT !.email = emailArg]
  /\ label_email_error' = valider_email_temps_reel(emailArg)
  /\ UNCHANGED <<tableExists, contacts, seq, last, issued, emailArg, emailRet>>
  /\ UNCHANGED <<tree, focus, log, conns>>

NextSaisie == ValiderEmail \/ KeyRelease

\* the email Entry with its check, and the validator of the Controller, on
\* the same text
SpecSaisie == InitEmail /\ [][NextSaisie]_vars

\* get_inputs: the Entry texts as they are, and the text of the Text widget,
\* which Tk ends with a newline, stripped
get_inputs(f) == [f EXCEPT !.adresse = strip(f.adresse \o <<"\n">>)]

\* a mutant of pyOr: the second value is preferred
pyOrLast(x, y) == IF truthy(y) THEN y ELSE x

\* `x or y` of Python
pyOr(x, y) == IF truthy(x) THEN x ELSE y

\* a mutant of set_inputs: the `or ""` of the optional fields is forgotten
set_inputsNoOr(contact) ==
  Fields(rNom(contact), rPrenom(contact), rTelephone(contact), rEmail(contact),
         rAdresse(contact))

\* set_inputs: the widgets are emptied, then filled from the row
set_inputs(contact) ==
  Fields(rNom(contact), rPrenom(contact), pyOr(rTelephone(contact), <<>>),
         pyOr(rEmail(contact), <<>>), pyOr(rAdresse(contact), <<>>))

\* a mutant of get_selection: the first row is taken for the focus item
get_selectionFirst(items, foc) == IF foc = 0 THEN None ELSE PyInt(rId(items[1]))

\* get_selection: None when no item has the focus, else the first value of
\* the focus item, which Tk gives back as the int it was inserted as
get_selection(items, foc) == IF foc = 0 THEN None ELSE PyInt(rId(items[foc]))

\* a mutant of noSelection: the handler goes on without a selection
noSelectionIgnored(contact_id) == FALSE

\* `not contact_id` of a selection
noSelection(contact_id) == contact_id = None \/ intval(contact_id) = 0

\* what a handler does, one step after the other: a call of the model
\* ("modele"), a dialog, a change of the widgets, an exception that leaves
\* the handler ("raise")
Ev(ev, arg) == [ev |-> ev, arg |-> arg]

message_info(titre, message) == Ev("message_info", <<titre, message>>)
message_erreur(titre, message) == Ev("message_erreur", <<titre, message>>)

\* askyesno with the nom and the prenom it shows and the answer it returns
message_confirmation(titre, nom, prenom, answer) ==
  Ev("message_confirmation", [titre |-> titre, nom |-> nom, prenom |-> prenom,
                              answer |-> answer])

vider_champs == Ev("vider_champs", <<>>)
afficher_liste(liste_contacts) == Ev("afficher_liste", liste_contacts)

(***************************************************************************)
(* Controller.  A handler runs from the event to its return, the dialogs   *)
(* it opens being answered on the way.                                     *)
(***************************************************************************)
\* the handler of an event has done these steps and leaves this table, this
\* last call of the model and these widgets
handled(name, events, table, s, call, fields, items, foc) ==
  /\ log' = [handler |-> name, events |-> events]
  /\ tableExists' =
       (tableExists \/ \E i \in DOMAIN events :
                         events[i].ev = "modele" /\ events[i].arg.exc = "none")
  /\ contacts' = table
  /\ seq' = s
  /\ last' = call
  /\ issued' = issued \cup (rowids(table) \ rowids(contacts))
  /\ form' = fields
  /\ tree' = items
  /\ focus' = foc
  /\ UNCHANGED <<emailArg, emailRet, conns, label_email_error>>

\* a mutant of returned: the handler empties the form on its way out
returnedCleared(name, events, call) ==
  handled(name, events, contacts, seq, call, EmptyForm, tree, focus)

\* the handler returns, or an exception leaves it, before it has changed the
\* table or a widget
returned(name, events, call) ==
  handled(name, events, contacts, seq, call, form, tree, focus)

\* the handler shows an error and returns
refused(name, titre, message) ==
  returned(name, <<message_erreur(titre, message)>>, last)

\* a mutant of champsVides: only the nom is looked at
champsVidesNomSeul(nom, prenom) == ~truthy(nom)

\* `not nom or not prenom` of the stripped fields
champsVides(nom, prenom) == ~truthy(nom) \/ ~truthy(prenom)

\* a mutant of emailInvalide: no email is refused
emailInvalideJamais(email) == FALSE

\* `not self.valider_email(email)` of the stripped email
emailInvalide(email) == ~valider_email(email)

\* a mutant of aucunResultat: an empty list goes to the Treeview like any other
aucunResultatJamais(resultats) == FALSE

\* `not resultats` of the list rechercher_contact returned
aucunResultat(resultats) == resultats = <<>>

\* a mutant of afficherTousRuns: the list is fetched and not rendered
afficherTousRunsNotRendered(table, s) ==
  {[events |-> <<Ev("modele", callOf("afficher_tous", <<>>, out))>>,
    call |-> callOf("afficher_tous", <<>>, out),
    tree |-> tree] : out \in afficherOutcomes(table, s)}

\* Controller.afficher_tous on a table: the list of the model goes to the
\* Treeview, which loses its items and with them its focus item
afficherTousRuns(table, s) ==
  {[events |-> <<Ev("modele", callOf("afficher_tous", <<>>, out)),
                 afficher_liste(out.ret)>>,
    call |-> callOf("afficher_tous", <<>>, out),
    tree |-> out.ret] : out \in afficherOutcomes(table, s)}

Controller_ajouter_contact ==
  LET donnees == get_inputs(form)
      nom == strip(donnees.nom)
      prenom == strip(donnees.prenom)
      telephone == strip(donnees.telephone)
      email == strip(donnees.email)
      adresse == strip(donnees.adresse)
      out == ajouterOutcome(contacts, seq, nom, prenom, telephone, email, adresse)
      call == callOf("ajouter_contact", Fields(nom, prenom, telephone, email, adresse), out)
  IN
  IF champsVides(nom, prenom)
  THEN refused("ajouter_contact", "Erreur", "Le nom et le prénom sont obligatoires")
  ELSE IF emailInvalide(email)
  THEN refused("ajouter_contact", "Erreur", "L'email n'est pas valide")
  ELSE IF out.exc # "none"
  THEN returned("ajouter_contact", <<Ev("modele", call), Ev("raise", out.exc)>>, call)
  ELSE /\ seq < MaxAjouts
       /\ \E run \in afficherTousRuns(out.contacts, out.seq) :
            handled("ajouter_contact",
                    <<Ev("modele", call),
                      message_info("Succès", "Contact ajouté avec succès"),
                      vider_champs>> \o run.events,
                    out.contacts, out.seq, run.call, EmptyForm, run.tree, 0)

Controller_rechercher_contact ==
  LET donnees == get_inputs(form)
      valeur == pyOr(strip(donnees.nom),
                     pyOr(strip(donnees.telephone), strip(donnees.email)))
  IN
  IF ~truthy(valeur)
  THEN refused("rechercher_contact", "Erreur", "Le critère de recherche est obligatoire")
  ELSE \E out \in rechercherOutcomes(contacts, seq, valeur) :
         LET call == callOf("rechercher_contact", [critere |-> valeur], out) IN
         IF out.exc # "none"
         THEN returned("rechercher_contact",
                       <<Ev("modele", call), Ev("raise", out.exc)>>, call)
         ELSE IF aucunResultat(out.ret)
         THEN returned("rechercher_contact",
                       <<Ev("modele", call),
                         message_erreur("Erreur", "Aucun contact trouvé")>>,
                       call)
         ELSE handled("rechercher_contact",
                      <<Ev("modele", call), afficher_liste(out.ret)>>,
                      contacts, seq, call, form, out.ret, 0)

Controller_charger_contact_selection ==
  LET contact_id == get_selection(tree, focus)
      out == obtenirOutcome(contacts, seq, contact_id)
      call == callOf("obtenir_contact_par_id", [contact_id |-> contact_id], out)
  IN
  IF noSelection(contact_id)
  THEN refused("charger_contact_selection", "Erreur", "Aucun contact sélectionné")
  ELSE IF out.exc # "none"
  THEN returned("charger_contact_selection",
                <<Ev("modele", call), Ev("raise", out.exc)>>, call)
  ELSE IF out.ret = None
  THEN \* contact[1] of None, once set_inputs has emptied the widgets
       handled("charger_contact_selection",
               <<Ev("modele", call), vider_champs, Ev("raise", "TypeError")>>,
               contacts, seq, call, EmptyForm, tree, focus)
  ELSE handled("charger_contact_selection",
               <<Ev("modele", call), vider_champs, Ev("set_inputs", out.ret)>>,
               contacts, seq, call, set_inputs(out.ret), tree, focus)

Controller_modifier_contact ==
  LET contact_id == get_selection(tree, focus)
      donnees == get_inputs(form)
      nom == strip(donnees.nom)
      prenom == strip(donnees.prenom)
      telephone == strip(donnees.telephone)
      email == strip(donnees.email)
      adresse == strip(donnees.adresse)
      out == modifierOutcome(contacts, seq, contact_id, nom, prenom, telephone, email,
                             adresse)
      call == callOf("modifier_contact",
                     [contact_id |-> contact_id] @@
                       Fields(nom, prenom, telephone, email, adresse),
                     out)
  IN
  IF noSelection(contact_id)
  THEN refused("modifier_contact", "Erreur", "Aucun contact sélectionné")
  ELSE IF champsVides(nom, prenom)
  THEN refused("modifier_contact", "Erreur", "Nom et prénom sont obligatoir")
  ELSE IF emailInvalide(email)
  THEN refused("modifier_contact", "Erreur", "Email invalide")
  ELSE IF out.exc # "none"
  THEN returned("modifier_contact", <<Ev("modele", call), Ev("raise", out.exc)>>, call)
  ELSE \E run \in afficherTousRuns(out.contacts, out.seq) :
         handled("modifier_contact",
                 <<Ev("modele", call),
                   message_info("Succès", "Contact modifié avec succès"),
                   vider_champs>> \o run.events,
                 out.contacts, out.seq, run.call, EmptyForm, run.tree, 0)

Controller_supprimer_contact(confirmation) ==
  LET contact_id == get_selection(tree, focus)
      got == obtenirOutcome(contacts, seq, contact_id)
      read == callOf("obtenir_contact_par_id", [contact_id |-> contact_id], got)
      out == supprimerOutcome(contacts, seq, contact_id)
      call == callOf("supprimer_contact", [contact_id |-> contact_id], out)
  IN
  IF noSelection(contact_id)
  THEN refused("supprimer_contact", "Erreur", "Sélectionnez un contact à supprimer")
  ELSE IF got.exc # "none"
  THEN returned("supprimer_contact", <<Ev("modele", read), Ev("raise", got.exc)>>, read)
  ELSE IF got.ret = None
  THEN \* contact[1] of None in the text of the dialog
       returned("supprimer_contact", <<Ev("modele", read), Ev("raise", "TypeError")>>, read)
  ELSE LET ask == message_confirmation("Confirmation", rNom(got.ret), rPrenom(got.ret),
                                       confirmation) IN
       IF ~confirmation
       THEN returned("supprimer_contact", <<Ev("modele", read), ask>>, read)
       ELSE IF out.exc # "none"
       THEN returned("supprimer_contact",
                     <<Ev("modele", read), ask, Ev("modele", call),
                       Ev("raise", out.exc)>>,
                     call)
       ELSE \E run \in afficherTousRuns(out.contacts, out.seq) :
              handled("supprimer_contact",
                      <<Ev("modele", read), ask, Ev("modele", call),
                        message_info("Succès", "Contact supprimé avec succès"),
                        vider_champs>> \o run.events,
                      out.contacts, out.seq, run.call, EmptyForm, run.tree, 0)

Controller_afficher_tous ==
  \E run \in afficherTousRuns(contacts, seq) :
    handled("afficher_tous", run.events, contacts, seq, run.call, form, run.tree, 0)

(***************************************************************************)
(* The application on a new database file: the window is open, and the     *)
(* user types in the form, clicks in the list and presses the buttons.     *)
(* The button Quitter ends the event loop and is no step.                  *)
(***************************************************************************)
\* what the user types into the form
FormInputs ==
  { EmptyForm,
    Fields(<<"a">>, <<"b">>, <<>>, <<>>, <<" ">>),
    Fields(<<" ", "B">>, <<"a", " ">>, <<" ", "1">>, <<" ", "a", "@", "b", ".", "a", "a">>,
           <<"b">>),
    Fields(<<"a">>, <<"a">>, <<>>, <<"a", "@", "b">>, <<>>),
    Fields(<<" ">>, <<"a">>, <<"1">>, <<>>, <<>>),
    Fields(<<>>, <<"b">>, <<" ">>, <<"@">>, <<>>),
    Fields(<<"b", "b">>, <<>>, <<>>, <<>>, <<>>) }

\* Controller.__init__ has run: the list of the empty table is in the Treeview
InitApp ==
  /\ tableExists = TRUE
  /\ contacts = {}
  /\ seq = 0
  /\ last = Call("afficher_tous", <<>>, "none", <<>>) @@ [msg |-> ""]
  /\ issued = {}
  /\ emailArg = <<>>
  /\ emailRet = <<>>
  /\ form = EmptyForm
  /\ tree = <<>>
  /\ focus = 0
  /\ log = [handler |-> "__init__",
            events |-> <<Ev("modele", Call("afficher_tous", <<>>, "none", <<>>) @@
                                        [msg |-> ""]),
                         afficher_liste(<<>>)>>]
  /\ conns = 0
  /\ label_email_error = ""

\* the user replaces the text of the widgets; the keys released in the
\* email Entry run its check
Saisir ==
  /\ \E f \in FormInputs :
       /\ form' = f
       /\ label_email_error' = IF f.email # form.email
                               THEN valider_email_temps_reel(f.email)
                               ELSE label_email_error
  /\ log' = [handler |-> "<Key>", events |-> <<>>]
  /\ UNCHANGED <<tableExists, contacts, seq, last, issued, emailArg, emailRet, tree, focus>>
  /\ UNCHANGED conns

\* the user clicks on a row of the Treeview, which becomes the focus item
Selectionner ==
  /\ \E i \in 1..Len(tree) : focus' = i
  /\ log' = [handler |-> "<Button-1>", events |-> <<>>]
  /\ UNCHANGED <<tableExists, contacts, seq, last, issued, emailArg, emailRet, form, tree>>
  /\ UNCHANGED <<conns, label_email_error>>

BoutonAjouter == Controller_ajouter_contact

BoutonRechercher == Controller_rechercher_contact

\* <Double-1> on the Treeview, the first click having made its row the focus item
DoubleClic == Controller_charger_contact_selection

BoutonModifier == Controller_modifier_contact

BoutonSupprimer == \E confirmation \in BOOLEAN : Controller_supprimer_contact(confirmation)

BoutonAfficherTous == Controller_afficher_tous

NextApp ==
  \/ Saisir
  \/ Selectionner
  \/ BoutonAjouter
  \/ BoutonRechercher
  \/ DoubleClic
  \/ BoutonModifier
  \/ BoutonSupprimer
  \/ BoutonAfficherTous

SpecApp == InitApp /\ [][NextApp]_vars

(***************************************************************************)
(* The vocabulary of the properties.                                       *)
(***************************************************************************)
\* x is absent, empty or made of whitespace only
Blank(x) == x = None \/ \A i \in DOMAIN x : x[i] \in Whitespace

\* t is s without its leading and trailing whitespace
IsTrimOf(t, s) ==
  \E i \in 1..Len(s) + 1, j \in 0..Len(s) :
    /\ t = SubSeq(s, i, j)
    /\ \A k \in 1..i - 1 : s[k] \in Whitespace
    /\ \A k \in j + 1..Len(s) : s[k] \in Whitespace
    /\ t = <<>> \/ (t[1] \notin Whitespace /\ t[Len(t)] \notin Whitespace)

\* a stored optional field v is the trimmed argument x, absent staying absent
IsTrimOfOptional(v, x) == IF x = None THEN v = None ELSE v # None /\ IsTrimOf(v, x)

\* the same, an argument that is the empty string being stored as absent
IsTrimOrAbsent(v, x) == IF x = None \/ x = <<>> THEN v = None ELSE v # None /\ IsTrimOf(v, x)

\* row r has the id and holds the trimmed fields f, by the two readings
HoldsTrimmed(r, id, f) ==
  /\ r # None
  /\ rId(r) = id
  /\ IsTrimOf(rNom(r), f.nom) /\ IsTrimOf(rPrenom(r), f.prenom)
  /\ IsTrimOfOptional(rTelephone(r), f.telephone)
  /\ IsTrimOfOptional(rEmail(r), f.email)
  /\ IsTrimOfOptional(rAdresse(r), f.adresse)

HoldsTrimmedOrAbsent(r, id, f) ==
  /\ r # None
  /\ rId(r) = id
  /\ IsTrimOf(rNom(r), f.nom) /\ IsTrimOf(rPrenom(r), f.prenom)
  /\ IsTrimOrAbsent(rTelephone(r), f.telephone)
  /\ IsTrimOrAbsent(rEmail(r), f.email)
  /\ IsTrimOrAbsent(rAdresse(r), f.adresse)

Succeeded(call, op) == call.op = op /\ call.exc = "none"

PositiveId(contact_id) == contact_id # None /\ intval(contact_id) > 0

(***************************************************************************)
(* C1.  Every successful ajouter_contact returns a positive id, greater    *)
(* than every id an earlier ajouter_contact returned and borne by no       *)
(* earlier row, deleted rows included.                                     *)
(***************************************************************************)
C1_FreshIncreasingId ==
  [][ (Succeeded(last', "ajouter_contact") /\ contacts' # contacts) =>
        /\ last'.ret > 0
        /\ \A i \in issued : last'.ret > i
        /\ last'.ret \notin rowids(contacts) ]_vars

\* an id was returned after the row with the highest id had been deleted
C1_Witness ==
  /\ Succeeded(last, "ajouter_contact")
  /\ last.ret - 1 \in issued
  /\ last.ret - 1 \notin rowids(contacts)

(***************************************************************************)
(* C2.  ajouter_contact with a nom or a prenom that is absent, empty or    *)
(* blank raises ValueError and leaves the table and the id sequence as     *)
(* they were.                                                              *)
(***************************************************************************)
C2_CreateRejectsBlankName ==
  [][ (last'.op = "ajouter_contact" /\
       (Blank(last'.args.nom) \/ Blank(last'.args.prenom))) =>
        /\ last'.exc = "ValueError"
        /\ contacts' = contacts
        /\ seq' = seq ]_vars

\* the call was refused on a table that holds a row
C2_Witness ==
  /\ last.op = "ajouter_contact"
  /\ last.exc = "ValueError"
  /\ last.args.prenom = <<" ", "\n">>
  /\ contacts # {}

(***************************************************************************)
(* C3.  After a successful ajouter_contact, obtenir_contact_par_id of the  *)
(* returned id returns the row with that id and the five fields trimmed.   *)
(***************************************************************************)
\* as claimed: every field equals the trimmed argument
C3_Original ==
  Succeeded(last, "ajouter_contact") =>
    LET got == obtenirResult(contacts, PyInt(last.ret)) IN
    got[1] = "none" /\ HoldsTrimmed(got[2], last.ret, last.args)

\* as amended: an optional field given as the empty string comes back absent
C3_ReadBackCreated ==
  Succeeded(last, "ajouter_contact") =>
    LET got == obtenirResult(contacts, PyInt(last.ret)) IN
    got[1] = "none" /\ HoldsTrimmedOrAbsent(got[2], last.ret, last.args)

\* a row was created from fields with whitespace around them, with an
\* optional field that is blank and another that holds text
C3_Witness ==
  /\ Succeeded(last, "ajouter_contact")
  /\ last.args.telephone = <<" ">>
  /\ last.args.email = <<" ", "b">>
  /\ last.ret > 1

(***************************************************************************)
(* C4.  modifier_contact with a positive id that no row has, and valid     *)
(* names, returns False and leaves the table as it was.                    *)
(***************************************************************************)
C4_UpdateUnknownId ==
  [][ (/\ last'.op = "modifier_contact"
       /\ PositiveId(last'.args.contact_id)
       /\ intval(last'.args.contact_id) \notin rowids(contacts)
       /\ ~Blank(last'.args.nom) /\ ~Blank(last'.args.prenom)) =>
        /\ last'.exc = "none"
        /\ last'.ret = FALSE
        /\ contacts' = contacts ]_vars

\* False was returned for an id that is not in a table that holds rows
C4_Witness ==
  /\ Succeeded(last, "modifier_contact")
  /\ last.ret = FALSE
  /\ contacts # {}
  /\ intval(last.args.contact_id) \in issued

(***************************************************************************)
(* C5.  modifier_contact on the id of a row, with valid names, returns     *)
(* True, and obtenir_contact_par_id then returns the new trimmed values    *)
(* for the five fields, whatever the row held before.                      *)
(***************************************************************************)
\* as claimed: every field equals the trimmed argument
C5_Original ==
  [][ (/\ last'.op = "modifier_contact"
       /\ PositiveId(last'.args.contact_id)
       /\ intval(last'.args.contact_id) \in rowids(contacts)
       /\ ~Blank(last'.args.nom) /\ ~Blank(last'.args.prenom)) =>
        /\ last'.exc = "none"
        /\ last'.ret = TRUE
        /\ LET got == obtenirResult(contacts', last'.args.contact_id) IN
             /\ got[1] = "none"
             /\ HoldsTrimmed(got[2], intval(last'.args.contact_id), last'.args) ]_vars

\* as amended: an optional field given as the empty string is absent afterwards
C5_UpdateReplacesAll ==
  [][ (/\ last'.op = "modifier_contact"
       /\ PositiveId(last'.args.contact_id)
       /\ intval(last'.args.contact_id) \in rowids(contacts)
       /\ ~Blank(last'.args.nom) /\ ~Blank(last'.args.prenom)) =>
        /\ last'.exc = "none"
        /\ last'.ret = TRUE
        /\ LET got == obtenirResult(contacts', last'.args.contact_id) IN
             /\ got[1] = "none"
             /\ HoldsTrimmedOrAbsent(got[2], intval(last'.args.contact_id),
                                     last'.args) ]_vars

\* a row was updated with every optional field absent
C5_Witness ==
  /\ Succeeded(last, "modifier_contact")
  /\ last.ret = TRUE
  /\ last.args.telephone = None /\ last.args.email = None /\ last.args.adresse = None
  /\ \E r \in contacts : rId(r) = intval(last.args.contact_id) /\ rTelephone(r) = None

(***************************************************************************)
(* C6.  supprimer_contact with a positive id returns True exactly when a   *)
(* row had the id; after True obtenir_contact_par_id returns None for the  *)
(* id, after False the table is as it was.                                 *)
(***************************************************************************)
C6_DeleteById ==
  [][ (last'.op = "supprimer_contact" /\ PositiveId(last'.args.contact_id)) =>
        /\ last'.exc = "none"
        /\ last'.ret = (intval(last'.args.contact_id) \in rowids(contacts))
        /\ last'.ret = TRUE =>
             obtenirResult(contacts', last'.args.contact_id) = <<"none", None>>
        /\ last'.ret = FALSE => contacts' = contacts ]_vars

\* a row was deleted from a table that keeps another row
C6_Witness ==
  /\ Succeeded(last, "supprimer_contact")
  /\ last.ret = TRUE
  /\ contacts # {}

(***************************************************************************)
(* C7.  rechercher_contact with a criterion that is not blank returns      *)
(* exactly the rows of which nom, telephone or email contains the trimmed  *)
(* criterion, letters compared without regard to case and every character  *)
(* of the criterion standing for itself.                                   *)
(***************************************************************************)
TrimOf(s) ==
  CHOOSE t \in {SubSeq(s, i, j) : i \in 1..Len(s) + 1, j \in 0..Len(s)} : IsTrimOf(t, s)

SameLetter(c, d) == c = d \/ {c, d} = {"a", "A"} \/ {c, d} = {"b", "B"}

\* q occurs in the field, character for character
Contains(field, q) ==
  /\ field # None
  /\ \E i \in 0..Len(field) - Len(q) :
       \A k \in 1..Len(q) : SameLetter(field[i + k], q[k])

C7_FindLiteralSubstring ==
  Succeeded(last, "rechercher_contact") =>
    LET q == TrimOf(last.args.critere) IN
    {last.ret[i] : i \in DOMAIN last.ret} =
      {r \in contacts : \/ Contains(rNom(r), q)
                        \/ Contains(rTelephone(r), q)
                        \/ Contains(rEmail(r), q)}

(***************************************************************************)
(* C8.  rechercher_contact with a criterion that is absent, empty or blank *)
(* raises ValueError, returns no list and leaves the table as it was.      *)
(***************************************************************************)
C8_FindRejectsBlank ==
  [][ (last'.op = "rechercher_contact" /\ Blank(last'.args.critere)) =>
        /\ last'.exc = "ValueError"
        /\ last'.ret = None
        /\ contacts' = contacts ]_vars

\* a blank criterion was refused on a table that holds a row
C8_Witness ==
  /\ last.op = "rechercher_contact"
  /\ last.args.critere = <<" ">>
  /\ last.exc = "ValueError"
  /\ contacts # {}

(***************************************************************************)
(* C9.  afficher_tous returns every row of the table exactly once, in      *)
(* ascending order of (nom, prenom): of two consecutive rows the first is  *)
(* less than or equal to the second in the lexicographic order.            *)
(***************************************************************************)
\* x comes before y: at the first place where they differ x has ended or
\* holds the lesser character
StrLt(x, y) ==
  \E k \in 1..Len(y) :
    /\ k <= Len(x) + 1
    /\ \A j \in 1..k - 1 : x[j] = y[j]
    /\ k = Len(x) + 1 \/ ord(x[k]) < ord(y[k])

KeyLe(r1, r2) ==
  \/ StrLt(rNom(r1), rNom(r2))
  \/ rNom(r1) = rNom(r2) /\ (StrLt(rPrenom(r1), rPrenom(r2)) \/ rPrenom(r1) = rPrenom(r2))

Letters == AsciiLower \cup AsciiUpper

LocalPartChars == Letters \cup AsciiDigit \cup {".", "_", "%", "+", "-"}

DomainChars == Letters \cup AsciiDigit \cup {".", "-"}

HasEmailForm(s) ==
  \E at \in 1..Len(s), dot \in 1..Len(s) :
    /\ s[at] = "@" /\ s[dot] = "." /\ at < dot
    /\ \A k \in dot + 1..Len(s) : s[k] # "."
    /\ at > 1 /\ \A k \in 1..at - 1 : s[k] \in LocalPartChars
    /\ dot > at + 1 /\ \A k \in at + 1..dot - 1 : s[k] \in DomainChars
    /\ Len(s) - dot >= 2 /\ \A k \in dot + 1..Len(s) : s[k] \in Letters

C10_EmailValidator ==
  emailRet # <<>> =>
    /\ emailRet[1] = (emailArg = <<>> \/ HasEmailForm(emailArg))
    /\ emailArg = <<"j", "e", "a", "n", ".", "d", "u", "p", "o", "n", "t", "@", "e", "x", "a", "m", "p", "l", "e", ".", "c", "o", "m">> => emailRet[1] = TRUE
    /\ emailArg \in {<<"n", "o", "d", "o", "m", "a", "i", "n">>, <<"a", "@", "b">>, <<"a", "@", "b", ".", "c">>} => emailRet[1] = FALSE
    /\ (\E i \in DOMAIN emailArg :
          emailArg[i] \in Whitespace \cup {",", ";", ":", "!", "?"}) => emailRet[1] = FALSE

(***************************************************************************)
(* C11.  In every state the storage layer reaches, every row of the table  *)
(* has a nom and a prenom that are not empty and that neither start nor    *)
(* end with whitespace.                                                    *)
(***************************************************************************)
Trimmed(s) == s # <<>> /\ s[1] \notin Whitespace /\ s[Len(s)] \notin Whitespace

C11_NamesNonEmptyTrimmed ==
  \A r \in contacts :
    /\ rNom(r) # None /\ Trimmed(rNom(r))
    /\ rPrenom(r) # None /\ Trimmed(rPrenom(r))

\* a row was updated with a nom that has whitespace behind it, in a table
\* that holds a row created with whitespace in front of its nom
C11_Witness ==
  /\ Succeeded(last, "modifier_contact")
  /\ last.ret = TRUE
  /\ last.args.nom = <<"a", "b", "\n">>
  /\ \E r \in contacts : rNom(r) = <<"B">> /\ rPrenom(r) = <<"a">>

(***************************************************************************)
(* C12.  modifier_contact, supprimer_contact and obtenir_contact_par_id    *)
(* called with an id that is None, zero or negative raise ValueError       *)
(* without creating the table or opening a connection, and leave the rows  *)
(* and the id sequence as they were; modifier_contact raises the error of  *)
(* the id even when a required field is missing too.                       *)
(***************************************************************************)
C12_InvalidIdRejected ==
  [][ (/\ last'.op \in {"modifier_contact", "supprimer_contact",
                        "obtenir_contact_par_id"}
       /\ ~PositiveId(last'.args.contact_id)) =>
        /\ last'.exc = "ValueError"
        /\ last'.msg = "L'identifiant du contact est invalide"
        /\ tableExists' = tableExists
        /\ contacts' = contacts
        /\ seq' = seq ]_vars

\* modifier_contact was refused for a negative id and a blank nom, on a
\* table that holds a row
C12_Witness ==
  /\ last.op = "modifier_contact"
  /\ last.args.contact_id = PyInt(-1)
  /\ Blank(last.args.nom)
  /\ last.exc = "ValueError"
  /\ contacts # {}

(***************************************************************************)
(* C13.  On a database with no row and no id assigned yet, ajouter_contact *)
(* of the example returns 1 and leaves the one row (1, "Dupont", "Jean",   *)
(* "0102030405", "jean@ex.com", "1 rue X"); on that table afficher_tous    *)
(* returns the list of that one row, and supprimer_contact(1) leaves the   *)
(* empty table, on which afficher_tous returns the empty list.             *)
(***************************************************************************)
ExampleRow ==
  Row(1, ExampleFields.nom, ExampleFields.prenom, ExampleFields.telephone,
      ExampleFields.email, ExampleFields.adresse)

C13_EndToEnd ==
  [][ /\ (contacts = {} /\ seq = 0 /\ last'.op = "ajouter_contact") =>
            (last'.exc = "none" /\ last'.ret = 1 /\ contacts' = {ExampleRow})
      /\ (contacts = {ExampleRow} /\ last'.op = "afficher_tous") =>
            (last'.ret = <<ExampleRow>> /\ contacts' = contacts)
      /\ (contacts = {ExampleRow} /\ last'.op = "supprimer_contact"
                                  /\ last'.args.contact_id = PyInt(1)) =>
            (last'.exc = "none" /\ contacts' = {})
      /\ (contacts = {} /\ last'.op = "afficher_tous") => last'.ret = <<>> ]_vars

\* the list is empty after the one contact ever created has been deleted
C13_Witness ==
  /\ last.op = "afficher_tous"
  /\ last.ret = <<>>
  /\ issued = {1}
  /\ seq = 1

(***************************************************************************)
(* The vocabulary of the properties of the handlers.  In a step of the     *)
(* application log' names the handler that ran and what it did; form,      *)
(* tree, focus and contacts are what it found.                             *)
(***************************************************************************)
\* the places in what a handler did where it did a thing of this kind
EventsOf(l, kind) == {i \in DOMAIN l.events : l.events[i].ev = kind}

\* the places where it called this method of the model
CallsOf(l, op) == {i \in EventsOf(l, "modele") : l.events[i].arg.op = op}

\* it showed this dialog
ShownIn(l, kind, message) ==
  \E i \in EventsOf(l, kind) : l.events[i].arg[2] = message

\* the kinds of the things it did, in order
KindsOf(l) == [i \in DOMAIN l.events |-> l.events[i].ev]

\* the five values of a form, trimmed
TrimmedValues(f) ==
  Fields(TrimOf(f.nom), TrimOf(f.prenom), TrimOf(f.telephone), TrimOf(f.email),
         TrimOf(f.adresse))

\* the trimmed nom and prenom are not empty, and the trimmed email is empty
\* or passes the validator
ValidForm(f) ==
  /\ TrimOf(f.nom) # <<>>
  /\ TrimOf(f.prenom) # <<>>
  /\ TrimOf(f.email) = <<>> \/ valider_email(TrimOf(f.email))

\* row r holds the values v, by the two readings of an empty optional value
HoldsValues(r, v) ==
  /\ rNom(r) = v.nom /\ rPrenom(r) = v.prenom
  /\ rTelephone(r) = v.telephone /\ rEmail(r) = v.email /\ rAdresse(r) = v.adresse

HoldsValuesOrAbsent(r, v) ==
  /\ rNom(r) = v.nom /\ rPrenom(r) = v.prenom
  /\ rTelephone(r) = (IF v.telephone = <<>> THEN None ELSE v.telephone)
  /\ rEmail(r) = (IF v.email = <<>> THEN None ELSE v.email)
  /\ rAdresse(r) = (IF v.adresse = <<>> THEN None ELSE v.adresse)

\* lst holds every row of the table once, in the order of (nom, prenom)
IsListing(lst, table) ==
  /\ Len(lst) = Cardinality(table)
  /\ {lst[i] : i \in DOMAIN lst} = table
  /\ \A i \in 1..Len(lst) - 1 : KeyLe(lst[i], lst[i + 1])

\* the user answered the confirmation dialog
Answered(l, answer) ==
  \E i \in EventsOf(l, "message_confirmation") : l.events[i].arg.answer = answer

(***************************************************************************)
(* C14.  When the button Ajouter is pressed on a form of which the trimmed *)
(* nom or prenom is empty, or the trimmed email is not empty and fails     *)
(* valider_email, an error dialog is shown, ajouter_contact of the model   *)
(* is not called, and the table, the form and the list stay as they were,  *)
(* the list not being rendered again.                                      *)
(***************************************************************************)
C14_AddRejectsInvalid ==
  [][ (log'.handler = "ajouter_contact" /\ ~ValidForm(form)) =>
        /\ EventsOf(log', "message_erreur") # {}
        /\ CallsOf(log', "ajouter_contact") = {}
        /\ contacts' = contacts /\ seq' = seq
        /\ form' = form
        /\ EventsOf(log', "vider_champs") = {}
        /\ EventsOf(log', "afficher_liste") = {}
        /\ tree' = tree /\ focus' = focus ]_vars

\* an email that fails the validator was refused, on a form, a table and a
\* list that are not empty
C14_Witness ==
  /\ log.handler = "ajouter_contact"
  /\ ShownIn(log, "message_erreur", "L'email n'est pas valide")
  /\ form.email = <<"a", "@", "b">>
  /\ contacts # {}
  /\ tree # <<>>

(***************************************************************************)
(* C15.  When the button Ajouter is pressed on a valid form, the handler   *)
(* does, in this order: ajouter_contact of the model with the trimmed      *)
(* values, which adds one row and changes no other; the success dialog;    *)
(* the emptying of the form; afficher_tous of the model; the rendering of  *)
(* the list it returned, which lists the whole table and holds the new     *)
(* row.                                                                    *)
(***************************************************************************)
\* the order of the steps and their effect; as claimed the new row holds the
\* trimmed values, as amended an empty optional value is absent from it
AddRuns(l, asClaimed) ==
  LET e == l.events IN
  /\ KindsOf(l) = <<"modele", "message_info", "vider_champs", "modele", "afficher_liste">>
  /\ e[1].arg.op = "ajouter_contact"
  /\ e[1].arg.exc = "none"
  /\ e[1].arg.args = TrimmedValues(form)
  /\ \E r \in contacts' :
       /\ r \notin contacts
       /\ rId(r) \notin rowids(contacts)
       /\ contacts' = contacts \cup {r}
       /\ rId(r) = e[1].arg.ret
       /\ IF asClaimed THEN HoldsValues(r, TrimmedValues(form))
          ELSE HoldsValuesOrAbsent(r, TrimmedValues(form))
       /\ \E i \in DOMAIN tree' : tree'[i] = r
  /\ e[4].arg.op = "afficher_tous"
  /\ e[5].arg = e[4].arg.ret
  /\ form' = EmptyForm
  /\ tree' = e[5].arg
  /\ IsListing(tree', contacts')

\* as claimed: the new row holds the trimmed values of the form
C15_Original ==
  [][ (log'.handler = "ajouter_contact" /\ ValidForm(form)) =>
        AddRuns(log', TRUE) ]_vars

\* as amended: an optional field of which the trimmed value is empty is
\* absent from the new row
C15_AddPersistsThenRefreshes ==
  [][ (log'.handler = "ajouter_contact" /\ ValidForm(form)) =>
        AddRuns(log', FALSE) ]_vars

\* a second contact was added from a form with whitespace around its values
\* and is listed ahead of the first
C15_Witness ==
  /\ log.handler = "ajouter_contact"
  /\ EventsOf(log, "message_info") # {}
  /\ log.events[1].arg.args.nom = <<"B">>
  /\ log.events[1].arg.ret = 2
  /\ Len(tree) = 2
  /\ rId(tree[1]) = 2

(***************************************************************************)
(* C16.  When the button Rechercher is pressed, the criterion given to     *)
(* rechercher_contact of the model is the first that is not empty of the   *)
(* trimmed nom, telephone and email of the form; when the three are empty  *)
(* an error dialog is shown and the model is not called.                   *)
(***************************************************************************)
C16_SearchQuery ==
  [][ log'.handler = "rechercher_contact" =>
        LET v == TrimmedValues(form)
            q == IF v.nom # <<>> THEN v.nom
                 ELSE IF v.telephone # <<>> THEN v.telephone ELSE v.email
        IN IF q = <<>>
           THEN /\ EventsOf(log', "message_erreur") # {}
                /\ EventsOf(log', "modele") = {}
           ELSE /\ Cardinality(EventsOf(log', "modele")) = 1
                /\ \E i \in CallsOf(log', "rechercher_contact") :
                     log'.events[i].arg.args.critere = q ]_vars

\* the nom of the form is blank and its telephone was the criterion; some
\* of the contacts were found
C16_Witness ==
  /\ log.handler = "rechercher_contact"
  /\ form.nom = <<" ">>
  /\ \E i \in CallsOf(log, "rechercher_contact") :
       /\ log.events[i].arg.args.critere = <<"1">>
       /\ log.events[i].arg.ret # <<>>
       /\ Len(log.events[i].arg.ret) < Cardinality(contacts)

(***************************************************************************)
(* C17.  When the button Modifier is pressed with a row selected and a     *)
(* valid form, modifier_contact of the model is called once, for the id of *)
(* the selected row and with the trimmed values; unless it raises, the     *)
(* success dialog is shown whatever it returned, then the form is emptied  *)
(* and the list of the whole table is rendered.  With no row selected, or  *)
(* a form that is not valid, an error dialog is shown and the table stays  *)
(* as it was.                                                              *)
(***************************************************************************)
C17_UpdateWorkflow ==
  [][ log'.handler = "modifier_contact" =>
        IF focus # 0 /\ ValidForm(form)
        THEN LET e == log'.events IN
             /\ CallsOf(log', "modifier_contact") = {1}
             /\ e[1].arg.args =
                  [contact_id |-> PyInt(rId(tree[focus]))] @@ TrimmedValues(form)
             /\ e[1].arg.exc = "none" =>
                  /\ KindsOf(log') = <<"modele", "message_info", "vider_champs",
                                       "modele", "afficher_liste">>
                  /\ e[4].arg.op = "afficher_tous"
                  /\ e[5].arg = e[4].arg.ret
                  /\ form' = EmptyForm
                  /\ tree' = e[5].arg
                  /\ IsListing(tree', contacts')
        ELSE /\ EventsOf(log', "message_erreur") # {}
             /\ contacts' = contacts /\ seq' = seq ]_vars

\* the second row of the list was updated from a form with whitespace around
\* its values
C17_Witness ==
  /\ log.handler = "modifier_contact"
  /\ EventsOf(log, "message_info") # {}
  /\ log.events[1].arg.args.nom = <<"B">>
  /\ log.events[1].arg.ret = TRUE
  /\ \E r \in contacts :
       /\ PyInt(rId(r)) = log.events[1].arg.args.contact_id
       /\ rNom(r) = <<"B">>
       /\ \E i \in 2..Len(tree) : tree[i] = r

(***************************************************************************)
(* C18.  When the button Supprimer is pressed with no row selected, or the *)
(* user answers no to the confirmation, supprimer_contact of the model is  *)
(* not called and the table, the form, the list and its focus item stay    *)
(* as they were.                                                           *)
(***************************************************************************)
C18_DeleteDeclined ==
  [][ (log'.handler = "supprimer_contact" /\ (focus = 0 \/ Answered(log', FALSE))) =>
        /\ CallsOf(log', "supprimer_contact") = {}
        /\ contacts' = contacts /\ seq' = seq
        /\ form' = form
        /\ tree' = tree /\ focus' = focus
        /\ EventsOf(log', "vider_champs") = {}
        /\ EventsOf(log', "afficher_liste") = {} ]_vars

\* the user answered no, with text in the form and a row selected
C18_Witness ==
  /\ log.handler = "supprimer_contact"
  /\ Answered(log, FALSE)
  /\ form # EmptyForm
  /\ focus # 0

(***************************************************************************)
(* C19.  When the button Supprimer is pressed with a row selected and the  *)
(* user answers yes, the row with the id of the selected row leaves the    *)
(* table and every other row stays as it was; the form is emptied and the  *)
(* list becomes the list of the whole table, in which the id is no more.   *)
(***************************************************************************)
C19_DeleteConfirmed ==
  [][ (log'.handler = "supprimer_contact" /\ focus # 0 /\ Answered(log', TRUE)) =>
        LET id == rId(tree[focus]) IN
        /\ id \in rowids(contacts)
        /\ contacts' = {r \in contacts : rId(r) # id}
        /\ form' = EmptyForm
        /\ IsListing(tree', contacts')
        /\ \A i \in DOMAIN tree' : rId(tree'[i]) # id ]_vars

\* the first of two contacts was deleted, with text in the form before
C19_Witness ==
  /\ log.handler = "supprimer_contact"
  /\ Answered(log, TRUE)
  /\ \E i \in CallsOf(log, "supprimer_contact") :
       log.events[i].arg.args.contact_id = PyInt(1) /\ log.events[i].arg.ret = TRUE
  /\ rowids(contacts) = {2}
  /\ Len(tree) = 1

(***************************************************************************)
(* C20.  When the button Rechercher is pressed and rechercher_contact of   *)
(* the model returns the empty list, the error dialog "Aucun contact       *)
(* trouvé" is shown and the list stays as it was, not rendered again; when *)
(* it returns a list that is not empty, the list shown becomes that list.  *)
(* Either way the table and the form stay as they were.                    *)
(***************************************************************************)
C20_SearchFrame ==
  [][ log'.handler = "rechercher_contact" =>
        \A i \in CallsOf(log', "rechercher_contact") :
          LET found == log'.events[i].arg IN
          found.exc = "none" =>
            /\ contacts' = contacts /\ seq' = seq
            /\ form' = form
            /\ IF found.ret = <<>>
               THEN /\ ShownIn(log', "message_erreur", "Aucun contact trouvé")
                    /\ EventsOf(log', "afficher_liste") = {}
                    /\ tree' = tree /\ focus' = focus
               ELSE /\ EventsOf(log', "message_erreur") = {}
                    /\ tree' = found.ret ]_vars

\* nothing was found, and the list shows the two contacts of the table
C20_Witness ==
  /\ log.handler = "rechercher_contact"
  /\ ShownIn(log, "message_erreur", "Aucun contact trouvé")
  /\ Len(tree) = 2

(***************************************************************************)
(* C21.  When a row of the list is double-clicked with no focus item, an   *)
(* error dialog is shown and the form stays as it was; with a focus item   *)
(* the form takes the nom, prenom, telephone, email and adresse of the row *)
(* of the table that has the id of the focus item, a NULL field giving an  *)
(* empty widget.  The table, the list and its focus item stay as they      *)
(* were.                                                                   *)
(***************************************************************************)
\* the text a widget shows for a stored field
ShownFor(v) == IF v = None THEN <<>> ELSE v

C21_LoadForEdit ==
  [][ log'.handler = "charger_contact_selection" =>
        /\ contacts' = contacts /\ seq' = seq
        /\ tree' = tree /\ focus' = focus
        /\ IF focus = 0
           THEN /\ EventsOf(log', "message_erreur") # {}
                /\ form' = form
           ELSE \E r \in contacts :
                  /\ rId(r) = rId(tree[focus])
                  /\ form' = Fields(rNom(r), rPrenom(r), ShownFor(rTelephone(r)),
                                    ShownFor(rEmail(r)), ShownFor(rAdresse(r))) ]_vars

\* the second row of the list, which has no telephone, no email and no
\* adresse, was loaded into a form that held other text
C21_Witness ==
  /\ log.handler = "charger_contact_selection"
  /\ EventsOf(log, "set_inputs") # {}
  /\ focus = 2
  /\ rTelephone(tree[2]) = None
  /\ form = Fields(rNom(tree[2]), rPrenom(tree[2]), <<>>, <<>>, <<>>)
  /\ rEmail(tree[1]) # None

(***************************************************************************)
(* C22.  Whatever the user does, every call a handler makes to the model   *)
(* passes the checks of the method called and raises no ValueError: the    *)
(* nom and the prenom given to ajouter_contact and modifier_contact are    *)
(* not blank, the criterion given to rechercher_contact is not blank, and  *)
(* the id given to obtenir_contact_par_id, modifier_contact and            *)
(* supprimer_contact is a positive int.                                    *)
(***************************************************************************)
MeetsPrecondition(c) ==
  /\ c.op \in {"ajouter_contact", "modifier_contact"} =>
       ~Blank(c.args.nom) /\ ~Blank(c.args.prenom)
  /\ c.op = "rechercher_contact" => ~Blank(c.args.critere)
  /\ c.op \in {"obtenir_contact_par_id", "modifier_contact", "supprimer_contact"} =>
       PositiveId(c.args.contact_id)

C22_NoValidationError ==
  /\ \A i \in EventsOf(log, "modele") :
       log.events[i].arg.exc = "none" /\ MeetsPrecondition(log.events[i].arg)
  /\ \A i \in EventsOf(log, "raise") : log.events[i].arg # "ValueError"

\* the handler of Supprimer read a row, deleted it and listed the table
C22_Witness ==
  /\ log.handler = "supprimer_contact"
  /\ CallsOf(log, "obtenir_contact_par_id") # {}
  /\ CallsOf(log, "supprimer_contact") # {}
  /\ CallsOf(log, "afficher_tous") # {}
  /\ contacts # {}

(***************************************************************************)
(* C23.  modifier_contact and supprimer_contact leave every row that has   *)
(* another id than the one given as it was.  modifier_contact keeps the    *)
(* number of rows and the ids of the rows; supprimer_contact that returns  *)
(* True leaves one row less, the row of the id.                            *)
(***************************************************************************)
OthersKept(id) ==
  {r \in contacts' : rId(r) # id} = {r \in contacts : rId(r) # id}

C23_OnlyTheRowOfTheId ==
  [][ /\ Succeeded(last', "modifier_contact") =>
           /\ OthersKept(intval(last'.args.contact_id))
           /\ Cardinality(contacts') = Cardinality(contacts)
           /\ rowids(contacts') = rowids(contacts)
      /\ Succeeded(last', "supprimer_contact") =>
           /\ OthersKept(intval(last'.args.contact_id))
           /\ last'.ret = TRUE =>
                /\ Cardinality(contacts') = Cardinality(contacts) - 1
                /\ rowids(contacts') =
                     rowids(contacts) \ {intval(last'.args.contact_id)}
           /\ last'.ret = FALSE => contacts' = contacts ]_vars

\* a row was updated in a table of three rows, the other two of which hold
\* other values than the ones given
C23_Witness ==
  /\ Succeeded(last, "modifier_contact")
  /\ last.ret = TRUE
  /\ Cardinality(contacts) = 3
  /\ \A r \in contacts :
       rId(r) # intval(last.args.contact_id) => rNom(r) # TrimOf(last.args.nom)

(***************************************************************************)
(* C24.  Between two calls of the methods of CarnetAdresses no connection  *)
(* is open: a method closes every connection it opened before it returns,  *)
(* before it raises ValueError, and before an error of sqlite3 leaves it.  *)
(***************************************************************************)
C24_ConnectionsReleased == conns = 0

(***************************************************************************)
(* C25.  Whatever the handlers of the Controller have done, every row of   *)
(* the list of the View is a row of the table, with the same id and the    *)
(* same values: the list shows no deleted contact and no replaced value.   *)
(***************************************************************************)
C25_ListShowsPersisted == \A i \in DOMAIN tree : tree[i] \in contacts

C25_Witness ==
  /\ log.handler = "supprimer_contact"
  /\ \E i \in CallsOf(log, "supprimer_contact") : log.events[i].arg.ret = TRUE
  /\ Len(tree) = 1
  /\ seq = 2

(***************************************************************************)
(* C26.  In supprimer_contact and charger_contact_selection the call of    *)
(* obtenir_contact_par_id for the selected id never returns None, so the   *)
(* Controller never reads a field of None.                                 *)
(***************************************************************************)
C26_SelectedIsStored ==
  /\ \A i \in CallsOf(log, "obtenir_contact_par_id") : log.events[i].arg.ret # None
  /\ \A i \in EventsOf(log, "raise") : log.events[i].arg # "TypeError"

C26_Witness ==
  /\ log.handler = "charger_contact_selection"
  /\ \E i \in CallsOf(log, "obtenir_contact_par_id") :
       /\ log.events[i].arg.ret \in contacts
       /\ log.events[i].arg.ret = tree[focus]
  /\ Len(tree) = 1
  /\ Cardinality(contacts) = 2

(***************************************************************************)
(* C27.  A text that valider_email accepts and that is not empty gets the  *)
(* verdict "Format valide" from the check of the email Entry.              *)
(***************************************************************************)
C27_AcceptedIsShownValid ==
  (emailRet = <<TRUE>> /\ emailArg # <<>> /\ form.email = emailArg) =>
    label_email_error = "Format valide"

C27_Witness ==
  /\ emailRet = <<TRUE>>
  /\ emailArg = <<"a", "@", "1", ".", "a", "a", "\n">>
  /\ form.email = emailArg
  /\ label_email_error = "Format valide"

(***************************************************************************)
(* C28.  Whatever the handlers of the Controller have done to a table that *)
(* was empty, the email of every contact of the table is None or a text    *)
(* that valider_email accepts.                                             *)
(***************************************************************************)
C28_StoredEmailsAreValid ==
  \A r \in contacts : rEmail(r) = None \/ valider_email(rEmail(r))

C28_Witness ==
  /\ log.handler = "ajouter_contact"
  /\ ShownIn(log, "message_erreur", "L'email n'est pas valide")
  /\ form.email = <<"a", "@", "b">>
  /\ \E r \in contacts : rEmail(r) = <<"a", "@", "b", ".", "a", "a">>
  /\ \E r \in contacts : rEmail(r) = None

====
